---- MODULE Spec2Model ----
(***************************************************************************)
(* The validity engine of FormControlMixin                                 *)
(* (packages/form-control/src/FormControlMixin.ts): one form control, its  *)
(* validator list, the validation runs it starts and the asynchronous      *)
(* validator results still in flight.                                      *)
(*                                                                         *)
(* A handler of the control is an operator from the control's state `s'    *)
(* (a record of the objects below) to the state it leaves; an action runs  *)
(* one whole handler.  A promise continuation is an action of its own: it  *)
(* runs when the promise it hangs on has settled.                          *)
(***************************************************************************)
EXTENDS Naturals, Sequences, FiniteSets

VARIABLES
  validators,  \* static formControlValidators of the control's class
  host,        \* what the subclass / document supplies to the mixin
  ctl,         \* the private fields of the FormControl instance
  internals,   \* the ElementInternals attached to the control
  runs,        \* one record per #runValidators call (its closure)
  obs,         \* what an observer of the control has seen (spies)
  interval,    \* the setInterval timer of the earlier #validate
  call         \* the last call of an exported pure function

vars == <<validators, host, ctl, internals, runs, obs, interval, call>>

----------------------------------------------------------------------------
(* Bounds *)

\* #runValidators calls in one behaviour, the constructor's included
MaxRuns == 3

----------------------------------------------------------------------------
(* Values, validity keys, messages *)

Null == "<null>"

\* FormValue arguments a caller passes to setValue (the constructor passes
\* null)
Values == {"f", "foo"}

\* values a validator may be handed: also null, and '' (onBlur with a false
\* predicate)
AnyValue == Values \cup {Null, ""}

\* the keys of ValidityState the validators of this model govern
Keys == {"valueMissing", "rangeUnderflow", "customError"}

\* the value of a property that is not defined
Undefined == "<undefined>"

\* attribute names: the ones validators declare, and two that only a base
\* class observes
AttributeNames == {"required", "minlength", "maxlength", "min", "lang"}

\* the characters of each attribute name
Chars ==
  [name \in AttributeNames |->
     CASE name = "required" -> <<"r", "e", "q", "u", "i", "r", "e", "d">>
       [] name = "minlength" -> <<"m", "i", "n", "l", "e", "n", "g", "t", "h">>
       [] name = "maxlength" -> <<"m", "a", "x", "l", "e", "n", "g", "t", "h">>
       [] name = "min" -> <<"m", "i", "n">>
       [] name = "lang" -> <<"l", "a", "n", "g">>]

\* String.prototype.includes: searchString occurs in string at some position
StringIncludes(string, searchString) ==
  LET hay == Chars[string]
      needle == Chars[searchString]
  IN \E from \in 1..(Len(hay) - Len(needle) + 1) :
       SubSeq(hay, from, from + Len(needle) - 1) = needle

\* Array.prototype.includes: searchElement is an element of array
ArrayIncludes(array, searchElement) ==
  \E n \in 1..Len(array) : array[n] = searchElement

\* the attribute property of a validator: not declared, a string, or an
\* array of strings
NoAttribute == [type |-> "undefined", names |-> <<>>]

StringAttribute(name) == [type |-> "string", names |-> <<name>>]

ArrayAttribute(names) == [type |-> "array", names |-> names]

\* the CustomValidityState literal {} a run starts from
EmptyValidity == [k \in Keys |-> "absent"]

\* the flags of a ValidityState with nothing violated
AllOk == [k \in Keys |-> FALSE]

Valid(flags) == \A k \in Keys : ~flags[k]

\* the validationMessage of a valid control (''), also an undefined message
NoMsg == [from |-> "none", idx |-> 0, arg |-> ""]

\* a validator object: isValid accepts exactly the values of `accepts'
V(async, key, accepts, attribute, fnMessage) ==
  [async |-> async, key |-> key, accepts |-> accepts,
   attribute |-> attribute, fnMessage |-> fnMessage]

\* requiredValidator of a control with the required attribute: !!value
requiredValidator ==
  V(FALSE, "valueMissing", {"f", "foo"}, StringAttribute("required"), FALSE)

\* minLengthValidator of a control with minlength 2: an empty value passes,
\* the message is computed from the value
minLengthValidator ==
  V(FALSE, "rangeUnderflow", {Null, "", "foo"},
    StringAttribute("minlength"), TRUE)

\* a synchronous validator with no key (customError) and no attribute that
\* accepts one value, as noopValidator of the tests does
isFooValidator == V(FALSE, "customError", {"foo"}, NoAttribute, FALSE)

\* another synchronous validator of the same key: value !== null
notNullValidator ==
  V(FALSE, "customError", {"", "f", "foo"}, NoAttribute, FALSE)

\* sleepValidator of the tests: resolves value === 'foo' later, or nothing
sleepValidator == V(TRUE, "customError", {"foo"}, NoAttribute, FALSE)

\* a validator that reacts to two attributes (attribute: string[]): the
\* value is at most three characters long and, if not empty, at least two
lengthValidator ==
  V(FALSE, "rangeUnderflow", {Null, "", "foo"},
    ArrayAttribute(<<"minlength", "maxlength">>), FALSE)

\* a second validator of the required attribute: the value is not ''
notEmptyValidator ==
  V(FALSE, "customError", {Null, "f", "foo"}, StringAttribute("required"),
    FALSE)

\* the validator lists of the control classes considered
ValidatorLists ==
  { <<>>,
    <<requiredValidator>>,
    <<sleepValidator>>,
    <<requiredValidator, sleepValidator>>,
    <<requiredValidator, minLengthValidator, isFooValidator>>,
    <<notNullValidator, isFooValidator>> }

\* those among them the whole control (every handler) is explored with
ControlLists ==
  { <<>>,
    <<requiredValidator>>,
    <<notNullValidator, isFooValidator>> }

\* the value an asynchronous validator resolves with
Resolutions == {"true", "false", "void"}

----------------------------------------------------------------------------
(* The platform: ElementInternals and the spied callbacks *)

Log(s, entry) == [s EXCEPT !.obs.log = Append(@, entry)]

\* the boolean an asynchronous validator's promise carries, as a resolution
Verdict(validator, value) ==
  IF value \in validator.accepts THEN "true" ELSE "false"

\* ElementInternals.setValidity(flags, message, anchor): the flags given
\* replace the validity (a flag not given is false), the message is kept only
\* for an invalid validity, the anchor is the element reportValidity focuses
setValidity(s, flags, message, anchor) ==
  [s EXCEPT !.internals.validity = flags,
            !.internals.validationMessage =
                IF Valid(flags) THEN NoMsg ELSE message,
            !.internals.anchor = anchor,
            !.obs.log = Append(@, "setValidity")]

\* this.validationMessageCallback?.(message), the control defining it
validationMessageCallback(s, message) ==
  [s EXCEPT !.obs.messageShown = message,
            !.obs.log = Append(@, "validationMessageCallback")]

\* this.valueChangedCallback(value), the control defining it; what it
\* returns (a promise or nothing) is dropped by the caller
valueChangedCallback(s, value) ==
  [s EXCEPT !.obs.valueChanged = value,
            !.obs.log = Append(@, "valueChangedCallback")]

----------------------------------------------------------------------------
(* FormControl: private lifecycle methods *)

\* the show-error decision without the focus term
showErrorIgnoringFocus(s) ==
  IF s.host.disabled
    THEN FALSE
    ELSE s.ctl.forceError \/ (s.ctl.touched /\ ~Valid(s.internals.validity))

\* the show-error decision without the disabled gate
showErrorIgnoringDisabled(s) ==
  s.ctl.forceError
    \/ (s.ctl.touched /\ ~Valid(s.internals.validity) /\ ~s.ctl.focused)

\* the value #shouldShowError returns
ShowErrorValue(s) ==
  IF s.host.disabled
    THEN FALSE
    ELSE s.ctl.forceError
           \/ (s.ctl.touched /\ ~Valid(s.internals.validity) /\ ~s.ctl.focused)

\* the state #shouldShowError leaves: the '--show-error' custom state
shouldShowError(s) ==
  IF s.host.disabled
    THEN Log(s, "shouldShowError")
    ELSE [s EXCEPT !.internals.showErrorState = ShowErrorValue(s),
                   !.obs.log = Append(@, "shouldShowError")]

\* a control that defines no validityCallback
NoValidityCallback ==
  [defined |-> FALSE, returns |-> [k \in Keys |-> Undefined]]

\* validityCallback(key) of the controls considered: not defined; the same
\* message for every key; a message for valueMissing and '' for the other
\* keys; nothing
ValidityCallbacks ==
  { NoValidityCallback,
    [defined |-> TRUE, returns |-> [k \in Keys |-> "value missing"]],
    [defined |-> TRUE,
     returns |-> [k \in Keys |->
                    IF k = "valueMissing" THEN "value missing" ELSE ""]],
    [defined |-> TRUE, returns |-> [k \in Keys |-> Undefined]] }

\* the message function with whatever validityCallback returns winning
validityCallbackAlwaysWins(s, i, value) ==
  LET validator == s.validators[i]
      message == s.host.validityCallback.returns[validator.key]
  IN
  IF s.host.validityCallback.defined
    THEN [from |-> "validityCallback", idx |-> 0, arg |-> message]
    ELSE IF validator.fnMessage
           THEN [from |-> "validator", idx |-> i, arg |-> value]
           ELSE [from |-> "validator", idx |-> i, arg |-> "literal"]

\* #getValidatorMessageForValue(validator, value), validator the i-th
getValidatorMessageForValue(s, i, value) ==
  LET validator == s.validators[i]
      message == s.host.validityCallback.returns[validator.key]
  IN
  IF s.host.validityCallback.defined /\ message \notin {Undefined, ""}
    THEN [from |-> "validityCallback", idx |-> 0, arg |-> message]
    ELSE IF validator.fnMessage
           THEN [from |-> "validator", idx |-> i, arg |-> value]
           ELSE [from |-> "validator", idx |-> i, arg |-> "literal"]

\* #setValidityWithOptionalTarget committing only once the validationTarget
\* is there
setValidityOnlyWithTarget(s, r, validity, validationMessage, by) ==
  IF s.host.validationTarget
    THEN [setValidity(s, [k \in Keys |-> validity[k] = "violated"],
                      validationMessage, TRUE)
            EXCEPT !.ctl.awaitingValidationTarget = FALSE]
    ELSE [s EXCEPT !.ctl.awaitingValidationTarget = TRUE]

\* #setValidityWithOptionalTarget, called by run r; `by' is 0 for the call
\* that ends the synchronous pass and i for the continuation of validator i
setValidityWithOptionalTarget(s, r, validity, validationMessage, by) ==
  LET flags == [k \in Keys |-> validity[k] = "violated"]
      s1 == [s EXCEPT !.obs.lastCommit =
                   [run |-> r, by |-> by, flags |-> flags,
                    value |-> s.runs[r].value,
                    results |-> s.runs[r].results,
                    message |-> validationMessage]]
  IN IF s.host.validationTarget
       THEN [setValidity(s1, flags, validationMessage, TRUE)
               EXCEPT !.ctl.awaitingValidationTarget = FALSE]
       ELSE LET s2 == setValidity(s1, flags, validationMessage, FALSE)
            IN IF Valid(s2.internals.validity)
                 THEN s2
                 ELSE [s2 EXCEPT !.ctl.awaitingValidationTarget = TRUE]

\* validator.isValid instanceof Promise: isValid is the validator's method, a
\* function object, whatever a call of it returns
isValidInstanceofPromise(validator) == FALSE

hasAsyncValidators(vs) ==
  \E i \in 1..Len(vs) : isValidInstanceofPromise(vs[i])

\* the controller of run r aborted only while its validators are pending
abortIfPending(s, r) ==
  IF \E i \in 1..Len(s.runs[r].results) : s.runs[r].results[i] = "pending"
    THEN [s EXCEPT !.runs[r].aborted = TRUE,
                   !.runs[r].abortCalls = @ + 1,
                   !.obs.log = Append(@, "abort")]
    ELSE s

\* the controller of run r aborted unless the run has completed
abortUnlessSettled(s, r) ==
  IF s.runs[r].allSettled = "fired"
    THEN s
    ELSE [s EXCEPT !.runs[r].aborted = TRUE,
                   !.runs[r].abortCalls = @ + 1,
                   !.obs.log = Append(@, "abort")]

\* this.#abortController.abort() on the controller of run r
abort(s, r) ==
  [s EXCEPT !.runs[r].aborted = TRUE,
            !.runs[r].abortCalls = @ + 1,
            !.obs.overlap = \E i \in 1..Len(s.runs[r].results) :
                               s.runs[r].results[i] = "pending",
            !.obs.supersededFutures =
                IF \E i \in 1..Len(s.runs[r].results) :
                      s.runs[r].results[i] = "pending"
                  THEN @ \cup {s.ctl.validationComplete}
                  ELSE @,
            !.obs.log = Append(@, "abort")]

\* what a run does with validator i: it calls isValid, or writes the
\* verdict into the run's validity map
Call(op, i) == [op |-> op, validator |-> i]

\* the callback of validators.forEach for validator i; acc holds the locals
\* of #runValidators (validity, validationMessage, hasChange), what each
\* validator returned and the calls made
callValidator(s, value, i, acc) ==
  LET validator == s.validators[i]
      key == validator.key
      isValid == value \in validator.accepts
  IN
  IF validator.async
    THEN [acc EXCEPT !.results = Append(@, "pending"),
                     !.log = Append(@, "isValid"),
                     !.calls = Append(@, Call("isValid", i))]
    ELSE [acc EXCEPT
            !.results = Append(@, IF isValid THEN "ok" ELSE "bad"),
            !.log = Append(@, "isValid"),
            !.calls = @ \o <<Call("isValid", i), Call("validity[key] =", i)>>,
            !.validity[key] = IF isValid THEN "ok" ELSE "violated",
            !.hasChange = @ \/ (s.internals.validity[key] # ~isValid),
            !.validationMessage =
                IF ~isValid /\ @ = NoMsg
                  THEN getValidatorMessageForValue(s, i, value)
                  ELSE @]

\* a loop that reaches the validators from the last to the first
RECURSIVE forEachFromLast(_, _, _, _)
forEachFromLast(s, value, i, acc) ==
  IF i > Len(s.validators) THEN acc
  ELSE callValidator(s, value, i, forEachFromLast(s, value, i + 1, acc))

\* validators.forEach(...) from validator i on
RECURSIVE forEachValidator(_, _, _, _)
forEachValidator(s, value, i, acc) ==
  IF i > Len(s.validators) THEN acc
  ELSE forEachValidator(s, value, i + 1, callValidator(s, value, i, acc))

\* the committed flags of the keys that asynchronous validators govern
asyncKeysOf(s, flags) ==
  [k \in Keys |->
     IF \E i \in 1..Len(s.validators) :
           s.validators[i].async /\ s.validators[i].key = k
       THEN flags[k] ELSE FALSE]

\* a new #validationComplete promise for every run
freshValidationComplete(s, r) ==
  [s EXCEPT !.ctl.validationComplete = r,
            !.ctl.isValidationPending = TRUE]

\* the head of #runValidators: a new #validationComplete promise (it is
\* named by the run r that creates it) unless a validation is pending
trackValidationComplete(s, r) ==
  IF ~s.ctl.isValidationPending
    THEN [s EXCEPT !.ctl.validationComplete = r,
                   !.ctl.isValidationPending = TRUE]
    ELSE s

\* #runValidators(value): the synchronous part of run Len(runs) + 1
runValidators(s, value) ==
  LET r == Len(s.runs) + 1
      s1 == trackValidationComplete(
              [s EXCEPT !.obs.prior = asyncKeysOf(s, s.internals.validity),
                        !.obs.overlap = FALSE], r)
      s2 == IF r > 1 THEN abort(s1, r - 1) ELSE s1
      acc == forEachValidator(s2, value, 1,
                 [validity |-> EmptyValidity, validationMessage |-> NoMsg,
                  hasChange |-> FALSE, results |-> <<>>, log |-> <<>>,
                  calls |-> <<>>])
      commit == acc.hasChange \/ ~hasAsyncValidators(s.validators)
      run == [value |-> value,
              validity |-> acc.validity,
              results |-> acc.results,
              aborted |-> FALSE,
              abortCalls |-> 0,
              allSettled |-> IF Len(s.validators) = 0
                               THEN "none" ELSE "registered"]
      s3 == [s2 EXCEPT !.runs = Append(@, run),
                       !.obs.log = @ \o acc.log,
                       !.obs.validated = value,
                       !.obs.step.hasChange = acc.hasChange,
                       !.obs.step.calls =
                           IF Len(s.validators) > 0 /\ commit
                             THEN Append(acc.calls, Call("setValidity", 0))
                             ELSE acc.calls,
                       !.obs.step.syncCommit =
                           Len(s.validators) > 0 /\ commit]
  IN IF Len(s.validators) = 0
       THEN s3
       ELSE IF commit
              THEN setValidityWithOptionalTarget(
                       s3, r, acc.validity, acc.validationMessage, 0)
              ELSE s3

\* isValid.then(isValidatorValid => ...): the continuation of validator i of
\* run r, its promise resolved with res
thenIsValid(s, r, i, res) ==
  IF res = "void"
    THEN [s EXCEPT !.runs[r].results[i] = "void",
                   !.obs.step.voidKey = s.validators[i].key]
    ELSE
      LET key == s.validators[i].key
          validity == [s.runs[r].validity EXCEPT
                         ![key] = IF res = "true" THEN "ok" ELSE "violated"]
          validationMessage ==
            getValidatorMessageForValue(s, i, s.runs[r].value)
          s1 == [s EXCEPT !.runs[r].validity = validity,
                          !.runs[r].results[i] =
                              IF res = "true" THEN "ok" ELSE "bad"]
      IN setValidityWithOptionalTarget(s1, r, validity, validationMessage, i)

\* Promise.allSettled(asyncValidators).then(() => ...) of run r
thenAllSettled(s, r) ==
  LET s1 == [s EXCEPT !.runs[r].allSettled = "fired"] IN
  IF ~s.runs[r].aborted
    THEN [s1 EXCEPT !.ctl.isValidationPending = FALSE,
                    !.ctl.resolved = @ \cup {s.ctl.validationComplete}]
    ELSE s1

----------------------------------------------------------------------------
(* FormControl: public lifecycle methods and event listeners *)

\* shouldFormValueUpdate() of the mixin itself: always true
defaultShouldFormValueUpdate(s) == TRUE

\* this.shouldFormValueUpdate(), the subclass overriding it (it reads the
\* control's checked property)
shouldFormValueUpdate(s) == s.host.shouldFormValueUpdate

\* setValue with valueChangedCallback called before the validators run
setValueCallbackFirst(s, value) ==
  LET s1 == Log([s EXCEPT !.ctl.forceError = FALSE], "forceError = false")
      s2 == validationMessageCallback(s1, NoMsg)
      s3 == [s2 EXCEPT !.ctl.value = value]
      valueToUpdate == IF shouldFormValueUpdate(s3) THEN value ELSE Null
      s4 == Log([s3 EXCEPT !.internals.formValue = valueToUpdate],
                "setFormValue")
      s5 == valueChangedCallback(s4, valueToUpdate)
      s6 == runValidators(Log(s5, "runValidators"), valueToUpdate)
  IN shouldShowError(s6)

\* setValue keeping in #value the value it commits to the form
setValueStoresCommitted(s, value) ==
  LET s1 == Log([s EXCEPT !.ctl.forceError = FALSE], "forceError = false")
      s2 == validationMessageCallback(s1, NoMsg)
      valueShouldUpdate == shouldFormValueUpdate(s2)
      valueToUpdate == IF valueShouldUpdate THEN value ELSE Null
      s3 == [s2 EXCEPT !.ctl.value = valueToUpdate]
      s4 == Log([s3 EXCEPT !.internals.formValue = valueToUpdate,
                           !.obs.valueShouldUpdate = valueShouldUpdate],
                "setFormValue")
      s5 == runValidators(Log(s4, "runValidators"), valueToUpdate)
      s6 == valueChangedCallback(s5, valueToUpdate)
  IN shouldShowError(s6)

\* setValue doing nothing when the value is the one it was last called with
setValueIfChanged(s, value) ==
  IF value = s.ctl.value THEN s
  ELSE
    LET s1 == Log([s EXCEPT !.ctl.forceError = FALSE], "forceError = false")
        s2 == validationMessageCallback(s1, NoMsg)
        s3 == [s2 EXCEPT !.ctl.value = value]
        valueShouldUpdate == shouldFormValueUpdate(s3)
        valueToUpdate == IF valueShouldUpdate THEN value ELSE Null
        s4 == Log([s3 EXCEPT !.internals.formValue = valueToUpdate,
                             !.obs.valueShouldUpdate = valueShouldUpdate],
                  "setFormValue")
        s5 == runValidators(Log(s4, "runValidators"), valueToUpdate)
        s6 == valueChangedCallback(s5, valueToUpdate)
    IN shouldShowError(s6)

\* setValue(value)
setValue(s, value) ==
  LET s1 == Log([s EXCEPT !.ctl.forceError = FALSE], "forceError = false")
      s2 == validationMessageCallback(s1, NoMsg)
      s3 == [s2 EXCEPT !.ctl.value = value]
      valueShouldUpdate == shouldFormValueUpdate(s3)
      valueToUpdate == IF valueShouldUpdate THEN value ELSE Null
      s4 == Log([s3 EXCEPT !.internals.formValue = valueToUpdate,
                           !.obs.valueShouldUpdate = valueShouldUpdate,
                           !.obs.disabledAt.since =
                               IF s.host.disabled THEN "value" ELSE @],
                "setFormValue")
      s5 == runValidators(Log(s4, "runValidators"), valueToUpdate)
      s6 == valueChangedCallback(s5, valueToUpdate)
  IN shouldShowError(s6)

\* #onFocus
onFocus(s) ==
  shouldShowError([s EXCEPT !.ctl.touched = TRUE, !.ctl.focused = TRUE])

\* #onBlur ending the interaction: touched is cleared
onBlurClearsTouched(s) ==
  LET s1 == [s EXCEPT !.ctl.focused = FALSE]
      s2 == runValidators(Log(s1, "runValidators"),
                IF shouldFormValueUpdate(s1) THEN s1.ctl.value ELSE "")
      s3 == IF ~Valid(s2.internals.validity) /\ s2.ctl.touched
              THEN [s2 EXCEPT !.ctl.forceError = TRUE, !.ctl.touched = FALSE]
              ELSE [s2 EXCEPT !.ctl.touched = FALSE]
      s4 == shouldShowError(s3)
  IN validationMessageCallback(s4,
         IF ShowErrorValue(s3) THEN s4.internals.validationMessage ELSE NoMsg)

\* #onBlur forcing the error of an invalid control, touched or not
onBlurForcesUntouched(s) ==
  LET s1 == [s EXCEPT !.ctl.focused = FALSE]
      s2 == runValidators(Log(s1, "runValidators"),
                IF shouldFormValueUpdate(s1) THEN s1.ctl.value ELSE "")
      s3 == IF ~Valid(s2.internals.validity)
              THEN [s2 EXCEPT !.ctl.forceError = TRUE]
              ELSE s2
      s4 == shouldShowError(s3)
  IN validationMessageCallback(s4,
         IF ShowErrorValue(s3) THEN s4.internals.validationMessage ELSE NoMsg)

\* #onBlur
onBlur(s) ==
  LET s1 == [s EXCEPT !.ctl.focused = FALSE]
      s2 == runValidators(Log(s1, "runValidators"),
                IF shouldFormValueUpdate(s1) THEN s1.ctl.value ELSE "")
      s3 == IF ~Valid(s2.internals.validity) /\ s2.ctl.touched
              THEN [s2 EXCEPT !.ctl.forceError = TRUE]
              ELSE s2
      s4 == shouldShowError(s3)
  IN validationMessageCallback(s4,
         IF ShowErrorValue(s3) THEN s4.internals.validationMessage ELSE NoMsg)

\* #onInvalid forcing the error only on a control that is not focused
onInvalidUnlessFocused(s) ==
  LET s1 == IF s.ctl.awaitingValidationTarget /\ s.host.validationTarget
              THEN [setValidity(s, s.internals.validity,
                                s.internals.validationMessage, TRUE)
                      EXCEPT !.ctl.awaitingValidationTarget = FALSE]
              ELSE s
      s2 == Log([s1 EXCEPT !.ctl.touched = TRUE,
                           !.ctl.forceError = ~s.ctl.focused],
                "forceError = true")
      s3 == shouldShowError(s2)
      s4 == shouldShowError(s3)
  IN validationMessageCallback(s4,
         IF ShowErrorValue(s3) THEN s4.internals.validationMessage ELSE NoMsg)

\* #onInvalid marking the control itself invalid
onInvalidCommitsCustomError(s) ==
  LET s1 == setValidity(s, [AllOk EXCEPT !["customError"] = TRUE],
                        [from |-> "validator", idx |-> 0, arg |-> "literal"],
                        s.host.validationTarget)
      s2 == Log([s1 EXCEPT !.ctl.touched = TRUE, !.ctl.forceError = TRUE],
                "forceError = true")
      s3 == shouldShowError(s2)
      s4 == shouldShowError(s3)
  IN validationMessageCallback(s4,
         IF ShowErrorValue(s3) THEN s4.internals.validationMessage ELSE NoMsg)

\* #onInvalid without the commit that supplies the validationTarget
onInvalidWithoutRecommit(s) ==
  LET s2 == Log([s EXCEPT !.ctl.touched = TRUE, !.ctl.forceError = TRUE],
                "forceError = true")
      s3 == shouldShowError(s2)
      s4 == shouldShowError(s3)
  IN validationMessageCallback(s4,
         IF ShowErrorValue(s3) THEN s4.internals.validationMessage ELSE NoMsg)

\* #onInvalid
onInvalid(s) ==
  LET s1 == IF s.ctl.awaitingValidationTarget /\ s.host.validationTarget
              THEN [setValidity(s, s.internals.validity,
                                s.internals.validationMessage, TRUE)
                      EXCEPT !.ctl.awaitingValidationTarget = FALSE]
              ELSE s
      s2 == Log([s1 EXCEPT !.ctl.touched = TRUE, !.ctl.forceError = TRUE],
                "forceError = true")
      s3 == shouldShowError(s2)
      s4 == shouldShowError(s3)   \* the showError getter
  IN validationMessageCallback(s4,
         IF ShowErrorValue(s3) THEN s4.internals.validationMessage ELSE NoMsg)

\* static getValidators(attribute): the indices of the validators the filter
\* keeps (validator.attribute === attribute, or validator.attribute
\* ?.includes(attribute): includes of a string, or of an array)
getValidators(vs, attribute) ==
  {i \in 1..Len(vs) :
     \/ /\ vs[i].attribute.type = "string"
        /\ \/ vs[i].attribute.names[1] = attribute
           \/ StringIncludes(vs[i].attribute.names[1], attribute)
     \/ /\ vs[i].attribute.type = "array"
        /\ ArrayIncludes(vs[i].attribute.names, attribute)}

\* validator.attribute as an element or as elements of the array that
\* validators.map(validator => validator.attribute).flat() builds
flat(attribute) ==
  IF attribute.type = "undefined" THEN <<Undefined>> ELSE attribute.names

RECURSIVE validatorAttributes(_, _)
validatorAttributes(vs, i) ==
  IF i > Len(vs) THEN <<>>
  ELSE flat(vs[i].attribute) \o validatorAttributes(vs, i + 1)

\* [...new Set(items)]: the items in the order of their first occurrence
RECURSIVE attributeSet(_, _)
attributeSet(items, n) ==
  IF n = 0 THEN <<>>
  ELSE LET before == attributeSet(items, n - 1) IN
       IF ArrayIncludes(before, items[n]) THEN before
       ELSE Append(before, items[n])

\* static get observedAttributes(), the base class observing superObserved
observedAttributes(vs, superObserved) ==
  LET items == superObserved \o validatorAttributes(vs, 1)
  IN attributeSet(items, Len(items))

\* attributeChangedCallback(name, oldValue, newValue)
attributeChangedCallback(s, name) ==
  IF getValidators(s.validators, name) # {} /\ s.host.validationTarget
    THEN setValue(s, s.ctl.value)
    ELSE s

\* this.resetFormControl?.(): the hook of a control that defines it sets the
\* control's value property to '', whose setter calls setValue
resetFormControl(s) ==
  IF s.host.resetFormControl
    THEN setValue(Log(s, "resetFormControl"), "")
    ELSE s

\* formResetCallback leaving #forceError as it is
formResetKeepsForceError(s) ==
  LET s1 == [s EXCEPT !.ctl.touched = FALSE]
      s2 == resetFormControl(shouldShowError(s1))
      s3 == shouldShowError(s2)
  IN validationMessageCallback(s3,
         IF ShowErrorValue(s2) THEN s3.internals.validationMessage ELSE NoMsg)

\* formResetCallback
formResetCallback(s) ==
  LET s1 == [s EXCEPT !.ctl.touched = FALSE, !.ctl.forceError = FALSE]
      s2 == resetFormControl(shouldShowError(s1))
      s3 == shouldShowError(s2)
  IN validationMessageCallback(s3,
         IF ShowErrorValue(s2) THEN s3.internals.validationMessage ELSE NoMsg)

\* what an observer remembers of a control that is not disabled
NotDisabled == [showError |-> FALSE, since |-> "nothing"]

\* the fields of a new instance, before the constructor body runs
NewControl(vs, target, predicate, hook) ==
  [validators |-> vs,
   host |-> [validationTarget |-> target,
             shouldFormValueUpdate |-> predicate,
             disabled |-> FALSE,
             validityCallback |-> NoValidityCallback,
             resetFormControl |-> hook,
             observedAttributes |-> <<"lang">>,
             formControlValidationGroup |-> FALSE,
             formValidationGroup |-> <<>>],
   ctl |-> [focused |-> FALSE,
            forceError |-> FALSE,
            touched |-> FALSE,
            awaitingValidationTarget |-> TRUE,
            value |-> "",
            isValidationPending |-> FALSE,
            validationComplete |-> 0,
            resolved |-> {0}],
   internals |-> [formValue |-> Null,
                  validity |-> AllOk,
                  validationMessage |-> NoMsg,
                  anchor |-> FALSE,
                  showErrorState |-> FALSE],
   runs |-> <<>>,
   obs |-> [log |-> <<>>,
            step |-> [kind |-> "constructor", stale |-> FALSE,
                      hasChange |-> FALSE, syncCommit |-> FALSE,
                      voidKey |-> "none", held |-> FALSE,
                      calls |-> <<>>],
            valueShouldUpdate |-> TRUE,
            disabledAt |-> NotDisabled,
            prior |-> AllOk,
            overlap |-> FALSE,
            supersededFutures |-> {},
            lastCommit |-> [run |-> 0, by |-> 0, flags |-> AllOk,
                            value |-> Null, results |-> <<>>,
                            message |-> NoMsg],
            validated |-> Null,
            messageShown |-> NoMsg,
            valueChanged |-> Null]]

\* constructor(...args): the listeners are added and setValue(null) is called
constructor(vs, target, predicate, hook) ==
  setValue(NewControl(vs, target, predicate, hook), Null)

----------------------------------------------------------------------------
(* The state machine *)

State ==
  [validators |-> validators, host |-> host, ctl |-> ctl,
   internals |-> internals, runs |-> runs, obs |-> obs]

\* what a handler starts from: the spy log of the previous handler is dropped
Begin(kind, r) ==
  [State EXCEPT !.obs.log = <<>>,
                !.obs.disabledAt.since =
                    IF host.disabled /\ @ = "nothing" THEN "event" ELSE @,
                !.obs.step = [kind |-> kind,
                              stale |-> IF r \in 1..Len(runs)
                                          THEN runs[r].aborted ELSE FALSE,
                              hasChange |-> FALSE, syncCommit |-> FALSE,
                              voidKey |-> "none",
                              held |-> /\ internals.formValue = Null
                                       /\ ctl.value # Null,
                              calls |-> <<>>]]

\* Once every validator of a run has settled, no continuation reads the
\* run's locals (value, validity) any more: they are dropped.  Its token and
\* its allSettled continuation are kept
Released(run) ==
  IF \A i \in 1..Len(run.results) : run.results[i] # "pending"
    THEN [run EXCEPT !.value = Null,
                     !.validity = EmptyValidity,
                     !.results = [i \in 1..Len(run.results) |-> "settled"]]
    ELSE run

LoadControl(s) ==
  /\ validators' = s.validators
  /\ host' = s.host
  /\ ctl' = s.ctl
  /\ internals' = s.internals
  /\ runs' = [r \in 1..Len(s.runs) |-> Released(s.runs[r])]
  /\ obs' = s.obs

Load(s) ==
  /\ LoadControl(s)
  /\ UNCHANGED <<interval, call>>

\* no timer has been set
NoInterval == [active |-> FALSE, tick |-> 0, commits |-> 0]

\* no pure function has been called
NoCall == [fn |-> "none"]

\* the control is in the state s
Control(s) ==
  /\ validators = s.validators
  /\ host = s.host
  /\ ctl = s.ctl
  /\ internals = s.internals
  /\ runs = [r \in 1..Len(s.runs) |-> Released(s.runs[r])]
  /\ obs = s.obs

\* the control is in the state s a constructor has left
Start(s) ==
  /\ Control(s)
  /\ interval = NoInterval
  /\ call = NoCall

\* a control of a class with one of the validator lists, just constructed
InitWith(lists, targets, predicates, hooks) ==
  \E vs \in lists, target \in targets, predicate \in predicates,
     hook \in hooks :
    Start(constructor(vs, target, predicate, hook))

Init == InitWith(ControlLists, BOOLEAN, BOOLEAN, BOOLEAN)

\* a control with the default shouldFormValueUpdate (always true)
InitRuns == InitWith(ValidatorLists, BOOLEAN, {TRUE}, {FALSE})

SetValue(value) ==
  /\ Len(runs) < MaxRuns
  /\ Load(setValue(Begin("setValue", Len(runs) + 1), value))

Focus ==
  /\ ~ctl.focused
  /\ Load(onFocus(Begin("focus", 0)))

Blur ==
  /\ ctl.focused
  /\ Len(runs) < MaxRuns
  /\ Load(onBlur(Begin("blur", Len(runs) + 1)))

Invalid ==
  /\ Len(runs) > 0
  /\ Load(onInvalid(Begin("invalid", 0)))

FormReset ==
  /\ host.resetFormControl => Len(runs) < MaxRuns
  /\ Load(formResetCallback(Begin("formReset", 0)))

\* the platform calls attributeChangedCallback for an observed attribute
AttributeChanged(name) ==
  /\ ArrayIncludes(observedAttributes(validators, host.observedAttributes),
                   name)
  /\ Len(runs) < MaxRuns
  /\ Load(attributeChangedCallback(
            Begin("attributeChanged", Len(runs) + 1), name))

\* the disabled attribute is set or removed
\* the observer notes what showError was when the control was disabled
ToggleDisabled ==
  /\ host' = [host EXCEPT !.disabled = ~@]
  /\ obs' = [Begin("disabled", 0).obs EXCEPT
               !.disabledAt =
                   IF host.disabled
                     THEN NotDisabled
                     ELSE [showError |-> ShowErrorValue(State),
                           since |-> "nothing"]]
  /\ UNCHANGED <<validators, ctl, internals, runs, interval, call>>

\* the validationTarget is rendered
TargetRendered ==
  /\ ~host.validationTarget
  /\ host' = [host EXCEPT !.validationTarget = TRUE]
  /\ obs' = Begin("rendered", 0).obs
  /\ UNCHANGED <<validators, ctl, internals, runs, interval, call>>

\* what shouldFormValueUpdate() reads (checked) changes
ToggleChecked ==
  /\ host' = [host EXCEPT !.shouldFormValueUpdate = ~@]
  /\ obs' = Begin("checked", 0).obs
  /\ UNCHANGED <<validators, ctl, internals, runs, interval, call>>

\* the promise validator i returned in run r resolves, and its continuation
\* runs: with the validator's verdict on the run's value, or with nothing
Settle(r, i, res) ==
  /\ r \in 1..Len(runs)
  /\ i \in 1..Len(runs[r].results)
  /\ runs[r].results[i] = "pending"
  /\ res \in {Verdict(validators[i], runs[r].value), "void"}
  /\ Load(thenIsValid(Begin("settle", r), r, i, res))

\* every promise of run r has settled: the allSettled continuation runs
AllSettled(r) ==
  /\ r \in 1..Len(runs)
  /\ runs[r].allSettled = "registered"
  /\ \A i \in 1..Len(runs[r].results) : runs[r].results[i] # "pending"
  /\ Load(thenAllSettled(Begin("allSettled", r), r))

Next ==
  \/ \E value \in Values : SetValue(value)
  \/ Focus
  \/ Blur
  \/ Invalid
  \/ FormReset
  \/ \E name \in AttributeNames : AttributeChanged(name)
  \/ ToggleDisabled
  \/ TargetRendered
  \/ ToggleChecked
  \/ \E r \in 1..MaxRuns, i \in 1..3, res \in Resolutions : Settle(r, i, res)
  \/ \E r \in 1..MaxRuns : AllSettled(r)

Spec == Init /\ [][Next]_vars

\* the value bridge: the handlers that commit a value, with the predicate
\* shouldFormValueUpdate() changing, and the runs' continuations
InitValue ==
  InitWith(ControlLists \cup {<<requiredValidator, sleepValidator>>},
           BOOLEAN, BOOLEAN, {FALSE})

NextValue ==
  \/ \E value \in Values : SetValue(value)
  \/ \E name \in AttributeNames : AttributeChanged(name)
  \/ TargetRendered
  \/ ToggleChecked
  \/ \E r \in 1..MaxRuns, i \in 1..3, res \in Resolutions : Settle(r, i, res)
  \/ \E r \in 1..MaxRuns : AllSettled(r)

SpecValue == InitValue /\ [][NextValue]_vars

\* the interaction state machine: focus, blur, invalid and reset events, the
\* disabled attribute, value changes and the runs' continuations, of a
\* control with the default shouldFormValueUpdate
InitShow ==
  InitWith({<<notNullValidator, isFooValidator>>}, BOOLEAN, {TRUE}, BOOLEAN)

NextShow ==
  \/ \E value \in Values : SetValue(value)
  \/ Focus
  \/ Blur
  \/ Invalid
  \/ FormReset
  \/ ToggleDisabled
  \/ \E r \in 1..MaxRuns : AllSettled(r)

SpecShow == InitShow /\ [][NextShow]_vars

\* the same events, without the disabled attribute, of a control with an
\* asynchronous validator, a rendered validationTarget and no reset hook
InitTouched ==
  InitWith({<<requiredValidator, sleepValidator>>}, {TRUE}, {TRUE}, {FALSE})

NextTouched ==
  \/ \E value \in Values : SetValue(value)
  \/ Focus
  \/ Blur
  \/ Invalid
  \/ FormReset
  \/ \E name \in AttributeNames : AttributeChanged(name)
  \/ \E r \in 1..MaxRuns, i \in 1..3, res \in Resolutions : Settle(r, i, res)
  \/ \E r \in 1..MaxRuns : AllSettled(r)

SpecTouched == InitTouched /\ [][NextTouched]_vars

\* every handler of a control with synchronous validators or none, whose
\* validationTarget is there from the start, is rendered later, or never is
InitTarget ==
  InitWith({<<>>, <<requiredValidator, minLengthValidator, isFooValidator>>},
           BOOLEAN, {TRUE}, BOOLEAN)

NextTarget ==
  \/ \E value \in Values : SetValue(value)
  \/ Focus
  \/ Blur
  \/ Invalid
  \/ FormReset
  \/ \E name \in AttributeNames : AttributeChanged(name)
  \/ TargetRendered
  \/ \E r \in 1..MaxRuns : AllSettled(r)

SpecTarget == InitTarget /\ [][NextTarget]_vars

\* another control of the validation group (same local name and name
\* attribute, same class) sets its value: its own validators run and its own
\* validity is committed
SiblingSetValue(n, value) ==
  /\ n \in DOMAIN host.formValidationGroup
  /\ LET acc == forEachValidator(State, value, 1,
                   [validity |-> EmptyValidity, validationMessage |-> NoMsg,
                    hasChange |-> FALSE, results |-> <<>>, log |-> <<>>,
                    calls |-> <<>>])
     IN host' = [host EXCEPT !.formValidationGroup[n] =
                     [k \in Keys |-> acc.validity[k] = "violated"]]
  /\ obs' = Begin("sibling", 0).obs
  /\ UNCHANGED <<validators, ctl, internals, runs, interval, call>>

\* the classes of the validation groups: synchronous validators
GroupLists ==
  { <<requiredValidator>>, <<requiredValidator, minLengthValidator>> }

\* a control with one sibling of its class under the same root, constructed
\* before it, the class setting formControlValidationGroup or not
InitGroup ==
  \E vs \in GroupLists, group \in BOOLEAN :
    LET sibling == constructor(vs, TRUE, TRUE, FALSE).internals.validity
    IN Start(setValue(
                 [NewControl(vs, TRUE, TRUE, FALSE) EXCEPT
                    !.host.formControlValidationGroup = group,
                    !.host.formValidationGroup = <<sibling>>],
                 Null))

NextGroup ==
  \/ \E value \in Values : SetValue(value)
  \/ Focus
  \/ Blur
  \/ \E name \in AttributeNames : AttributeChanged(name)
  \/ \E value \in Values \cup {""} : SiblingSetValue(1, value)
  \/ \E r \in 1..MaxRuns : AllSettled(r)

SpecGroup == InitGroup /\ [][NextGroup]_vars

\* the lists the messages and the keys are explored with: validators of
\* one key in both orders, validators of three keys, an asynchronous one
MessageLists ==
  { <<isFooValidator, notNullValidator>>,
    <<notNullValidator, isFooValidator>>,
    <<requiredValidator, minLengthValidator, isFooValidator>>,
    <<requiredValidator, sleepValidator>> }

\* a control of a class that defines validityCallback, or does not
InitMessage ==
  \E vs \in MessageLists, callback \in ValidityCallbacks :
    Start(setValue(
              [NewControl(vs, TRUE, TRUE, FALSE) EXCEPT
                 !.host.validityCallback = callback],
              Null))

NextMessage ==
  \/ \E value \in Values : SetValue(value)
  \/ \E name \in AttributeNames : AttributeChanged(name)
  \/ \E r \in 1..MaxRuns, i \in 1..3, res \in Resolutions : Settle(r, i, res)
  \/ \E r \in 1..MaxRuns : AllSettled(r)

SpecMessage == InitMessage /\ [][NextMessage]_vars

\* validator lists by the attributes they declare: none; two strings; a
\* string and an array; the same string twice
AttributeLists ==
  { <<isFooValidator>>,
    <<requiredValidator, minLengthValidator>>,
    <<requiredValidator, lengthValidator>>,
    <<requiredValidator, notEmptyValidator>> }

\* super.observedAttributes of the base classes: none, one attribute, two
\* attributes of which the validators may declare one
SuperObserved == { <<>>, <<"lang">>, <<"min", "required">> }

\* a control of a class with one of these lists and base classes
InitAttributes ==
  \E vs \in AttributeLists, superObserved \in SuperObserved,
     target \in BOOLEAN :
    Start(setValue(
              [NewControl(vs, target, TRUE, FALSE) EXCEPT
                 !.host.observedAttributes = superObserved],
              Null))

NextAttributes ==
  \/ \E value \in Values : SetValue(value)
  \/ \E name \in AttributeNames : AttributeChanged(name)
  \/ TargetRendered
  \/ \E r \in 1..MaxRuns : AllSettled(r)

SpecAttributes == InitAttributes /\ [][NextAttributes]_vars

\* focus and blur on a control with synchronous validators whose
\* shouldFormValueUpdate() changes, and the form reset
InitBlur ==
  InitWith({<<requiredValidator>>, <<notNullValidator, isFooValidator>>},
           {TRUE}, BOOLEAN, {FALSE})

NextBlur ==
  \/ \E value \in Values : SetValue(value)
  \/ Focus
  \/ Blur
  \/ FormReset
  \/ ToggleChecked
  \/ \E r \in 1..MaxRuns : AllSettled(r)

SpecBlur == InitBlur /\ [][NextBlur]_vars

\* the handlers that start a validation run, and the runs' continuations
NextRuns ==
  \/ \E value \in Values : SetValue(value)
  \/ Focus
  \/ Blur
  \/ \E name \in AttributeNames : AttributeChanged(name)
  \/ \E r \in 1..MaxRuns, i \in 1..3, res \in Resolutions : Settle(r, i, res)
  \/ \E r \in 1..MaxRuns : AllSettled(r)

SpecRuns == InitRuns /\ [][NextRuns]_vars

----------------------------------------------------------------------------
(* The validation runner: messages and commits *)

Pending(run) == \E i \in 1..Len(run.results) : run.results[i] = "pending"

\* no promise of a validator is outstanding and no continuation is queued
Quiescent ==
  \A r \in 1..Len(runs) : ~Pending(runs[r]) /\ runs[r].allSettled # "registered"

hadAsync == \E i \in 1..Len(validators) : validators[i].async

\* the first validator, in registration order, with an invalid verdict
FirstInvalid(results) ==
  CHOOSE i \in 1..Len(results) :
    results[i] = "bad" /\ \A j \in 1..(i - 1) : results[j] # "bad"

CommitsInvalid == obs.lastCommit.run > 0 /\ ~Valid(obs.lastCommit.flags)

\* C1: whenever a run commits an invalid result, the committed message is
\* the message of the first validator, in registration order, whose verdict
\* is invalid when the commit is made
C1_MessageOfFirstInvalid ==
  LET c == obs.lastCommit IN
  CommitsInvalid =>
    /\ \E i \in 1..Len(c.results) : c.results[i] = "bad"
    /\ c.message =
         getValidatorMessageForValue(State, FirstInvalid(c.results), c.value)

\* C2: the result of an asynchronous validator that arrives after its run
\* was superseded (its token aborted) changes neither the committed validity
\* flags nor the committed message
C2_StaleResultIgnored ==
  [][(obs'.step.kind = "settle" /\ obs'.step.stale)
       => /\ internals'.validity = internals.validity
          /\ internals'.validationMessage = internals.validationMessage]_vars

\* C3: when an asynchronous validator resolves after a synchronous validator
\* earlier in the list has failed in the same run, the commit it makes keeps
\* the message of the first invalid validator in registration order
C3_AsyncKeepsEarlierMessage ==
  LET c == obs.lastCommit IN
  (/\ c.run > 0
   /\ c.by > 0
   /\ \E j \in 1..(c.by - 1) : ~validators[j].async /\ c.results[j] = "bad")
    => c.message =
         getValidatorMessageForValue(State, FirstInvalid(c.results), c.value)

\* C4: when a value was set while the asynchronous validators of the value
\* set before it were pending, then once every validator has settled the
\* committed validity is the one the last run committed: the earlier run's
\* late result has left no trace
C4_FinalCommitIsOfLastRun ==
  (obs.overlap /\ Quiescent)
    => /\ obs.lastCommit.run = Len(runs)
       /\ internals.validity = obs.lastCommit.flags

Count(log, entry) == Cardinality({n \in DOMAIN log : log[n] = entry})

\* the handler that ran last started a validation run
StartedRun == \E n \in DOMAIN obs.log : obs.log[n] = "runValidators"

C6_SyncCommitOnlyIfNoAsyncOrChange ==
  obs.step.syncCommit => (~hadAsync \/ obs.step.hasChange)

\* C7: once every validator of the latest run (the one no later run has
\* superseded) has settled and its continuations have run, the
\* validationComplete promise is resolved, for every validator list
C7_CompleteResolves ==
  (Len(runs) > 0 /\ Quiescent) => ctl.validationComplete \in ctl.resolved

----------------------------------------------------------------------------
(* The validationComplete promise *)

\* C8 as stated: a validationComplete promise that belonged to a run
\* superseded while its asynchronous validators were pending is never
\* resolved
C8_SupersededFutureNeverResolved ==
  obs.supersededFutures \cap ctl.resolved = {}

\* C8: a run that starts while the asynchronous validators of the run
\* before it are pending creates no new validationComplete promise, the
\* superseded run's promise stays the current one; a promise is resolved
\* only by the allSettled continuation of a run that no later run has
\* superseded, and it is the current promise that this resolves
C8_FutureKeptAndResolvedByLiveRun ==
  [][/\ (Len(runs') > Len(runs) /\ Len(runs) > 0 /\ Pending(runs[Len(runs)]))
          => /\ ctl'.validationComplete = ctl.validationComplete
             /\ ctl'.resolved = ctl.resolved
     /\ (ctl'.resolved # ctl.resolved)
          => /\ obs'.step.kind = "allSettled"
             /\ ~obs'.step.stale
             /\ ctl'.resolved = ctl.resolved \cup {ctl.validationComplete}
    ]_vars

\* the promise of a run superseded while pending has been resolved, by the
\* run that superseded it
C8_Witness ==
  /\ obs.step.kind = "allSettled"
  /\ ~obs.step.stale
  /\ ctl.validationComplete \in obs.supersededFutures
  /\ ctl.validationComplete \in ctl.resolved

\* C9: an asynchronous validator of the latest run that resolves with
\* undefined or null makes no commit, and the committed status of its key is
\* then what it was before the run that called the validator (no other run
\* has committed since)
C9_VoidLeavesKeyAsBeforeRun ==
  (/\ obs.step.kind = "settle"
   /\ ~obs.step.stale
   /\ obs.step.voidKey # "none"
   /\ obs.lastCommit.run = Len(runs))
    => /\ Count(obs.log, "setValidity") = 0
       /\ internals.validity[obs.step.voidKey] = obs.prior[obs.step.voidKey]

----------------------------------------------------------------------------
(* The value bridge *)

SetValueOrder ==
  << "forceError = false", "validationMessageCallback", "setFormValue",
     "runValidators", "valueChangedCallback", "shouldShowError" >>

\* what #runValidators does
InRunValidators == {"abort", "isValid", "setValidity"}

OutsideRunValidators(entry) == entry \notin InRunValidators

\* the handler that ran last called setValue
CalledSetValue ==
  /\ obs.step.kind \in {"constructor", "setValue", "attributeChanged"}
  /\ obs.log # <<>>

\* C10: every setValue call clears forceError, calls
\* validationMessageCallback(''), commits the value the predicate lets
\* through to the form, runs the validators on that value, calls
\* valueChangedCallback with it and recomputes the show-error state, in this
\* order
C10_SetValueOrder ==
  CalledSetValue =>
    /\ SelectSeq(obs.log, OutsideRunValidators) = SetValueOrder
    /\ \A n \in DOMAIN obs.log :
         obs.log[n] \in InRunValidators
           => /\ \E m \in 1..(n - 1) : obs.log[m] = "runValidators"
              /\ \E m \in (n + 1)..Len(obs.log) :
                   obs.log[m] = "valueChangedCallback"
    /\ ~ctl.forceError
    /\ obs.messageShown = NoMsg
    /\ internals.formValue =
         IF host.shouldFormValueUpdate THEN ctl.value ELSE Null
    /\ obs.validated = internals.formValue
    /\ obs.valueChanged = internals.formValue
    /\ host.disabled \/ internals.showErrorState = ShowErrorValue(State)

\* a setValue call whose value the predicate held back: null was committed,
\* validated and handed to valueChangedCallback
C10_Witness ==
  /\ obs.step.kind = "setValue"
  /\ ~host.shouldFormValueUpdate
  /\ ctl.value = "foo"
  /\ internals.formValue = Null
  /\ Count(obs.log, "isValid") > 0

\* C11: the value committed to the form is the value of the most recent
\* setValue call if shouldFormValueUpdate() returned true in that call and
\* null otherwise; a setValue call made while the predicate is false commits
\* null whatever value it is given
C11_FormValueFollowsPredicate ==
  /\ internals.formValue = IF obs.valueShouldUpdate THEN ctl.value ELSE Null
  /\ (CalledSetValue /\ ~host.shouldFormValueUpdate)
       => internals.formValue = Null

\* setValue('f') on a control whose predicate is false: the form has null
C11_Witness ==
  /\ obs.step.kind = "setValue"
  /\ ~obs.valueShouldUpdate
  /\ ctl.value = "f"
  /\ internals.formValue = Null

\* C12: the value last passed to setValue is kept in #value while the
\* predicate is false (setValue stores the value it was given, no other
\* handler changes it), and the re-commit attributeChangedCallback makes,
\* setValue(this.#value), contributes the kept value to the form once the
\* predicate is true
C12_HeldValueRecommitted ==
  [][/\ obs'.step.kind = "setValue" => ctl'.value \in Values
     /\ obs'.step.kind # "setValue" => ctl'.value = ctl.value
     /\ (obs'.step.kind = "attributeChanged" /\ obs'.log # <<>>)
          => internals'.formValue =
               IF host.shouldFormValueUpdate THEN ctl.value ELSE Null
    ]_vars

\* 'foo' was set while the predicate was false (the form had null); the
\* predicate true again, the re-commit has put 'foo' in the form
C12_Witness ==
  /\ obs.step.kind = "attributeChanged"
  /\ obs.step.held
  /\ ctl.value = "foo"
  /\ internals.formValue = "foo"

\* C13: every setValue call starts a validation run that calls each
\* registered validator once, also when the value is the one set before (as
\* in the re-commit of attributeChangedCallback)
C13_EveryCallValidates ==
  (obs.step.kind \in {"constructor", "setValue"} \/ CalledSetValue)
    => /\ StartedRun
       /\ Count(obs.log, "isValid") = Len(validators)
       /\ Len(runs[Len(runs)].results) = Len(validators)

\* setValue(this.#value), the value unchanged, has called the validators
C13_Witness ==
  /\ obs.step.kind = "attributeChanged"
  /\ CalledSetValue
  /\ Len(validators) > 1
  /\ Count(obs.log, "isValid") = Len(validators)

----------------------------------------------------------------------------
(* The interaction state machine *)

\* forceError OR (touched AND NOT valid AND NOT focused)
Decision ==
  ctl.forceError
    \/ (ctl.touched /\ ~Valid(internals.validity) /\ ~ctl.focused)

\* C14: in every reachable state showError is forceError OR (touched AND
\* NOT valid AND NOT focused) on a control that is not disabled, and false
\* on a disabled control
C14_ShowErrorDecision ==
  ShowErrorValue(State) = (~host.disabled /\ Decision)

\* showError is true by touched, invalid and not focused alone
C14_Witness ==
  /\ ShowErrorValue(State)
  /\ ~ctl.forceError
  /\ ctl.touched
  /\ ~ctl.focused
  /\ ~host.disabled

\* what #shouldShowError reads besides the disabled attribute
Inputs == <<internals.validity, ctl.touched, ctl.focused, ctl.forceError>>

Disabling == ~host.disabled /\ host'.disabled

Enabling == host.disabled /\ ~host'.disabled

\* C15 as stated: setting disabled makes showError false and changes none
\* of validity, touched, focused and forceError; removing disabled, no value
\* having been set in between, gives showError the value it had before the
\* control was disabled
C15_RestoredUnlessValueSet ==
  [][/\ Disabling => (~ShowErrorValue(State') /\ UNCHANGED Inputs)
     /\ (Enabling /\ obs.disabledAt.since # "value")
          => ShowErrorValue(State') = obs.disabledAt.showError
    ]_vars

\* C15: setting disabled makes showError false and changes none of
\* validity, touched, focused and forceError; removing disabled, no handler
\* (value change, focus, blur, invalid event, form reset, validator
\* continuation) having run in between, gives showError the value it had
\* before the control was disabled
C15_RestoredIfNothingHandled ==
  [][/\ Disabling => (~ShowErrorValue(State') /\ UNCHANGED Inputs)
     /\ (Enabling /\ obs.disabledAt.since = "nothing")
          => /\ ShowErrorValue(State') = obs.disabledAt.showError
             /\ UNCHANGED Inputs
    ]_vars

\* a control that showed its error has been disabled: showError is false,
\* the control is still invalid, touched and forced, nothing has run since
C15_Witness ==
  /\ host.disabled
  /\ obs.disabledAt.showError
  /\ obs.disabledAt.since = "nothing"
  /\ ~ShowErrorValue(State)
  /\ ctl.forceError /\ ctl.touched /\ ~Valid(internals.validity)

\* C16: after every recomputation of the show-error decision the
\* '--show-error' state of the host is present exactly if the decision is
\* true
C16_MarkerFollowsDecision ==
  Count(obs.log, "shouldShowError") > 0
    => internals.showErrorState = ShowErrorValue(State)

\* some validator rejects the control's value
ValueInvalid ==
  \E i \in 1..Len(validators) : ctl.value \notin validators[i].accepts

\* C17: a blur on a touched control whose value is invalid (a validator
\* rejects it and the validity its latest run committed is invalid) leaves
\* showError true;
\* it stays true through focus and blur; and it is false as soon as setValue
\* is called with a value that every validator accepts
C17_StickyUntilCorrected ==
  [][/\ (/\ obs'.step.kind = "blur"
         /\ ctl'.touched
         /\ ValueInvalid
         /\ ~Valid(internals.validity)
         /\ obs.lastCommit.run = Len(runs)
         /\ ~host'.disabled)
          => (ctl'.forceError /\ ShowErrorValue(State'))
     /\ (/\ obs'.step.kind \in {"focus", "blur"}
         /\ ctl.forceError
         /\ ~host'.disabled)
          => (ctl'.forceError /\ ShowErrorValue(State'))
     /\ (/\ obs'.step.kind = "setValue"
         /\ \A i \in 1..Len(validators) : ctl'.value \in validators[i].accepts)
          => (~ctl'.forceError /\ ~ShowErrorValue(State'))
    ]_vars

\* C18: after an invalid event touched and forceError are true, the control
\* focused or not, and showError is true unless the control is disabled
C18_InvalidForcesError ==
  obs.step.kind = "invalid"
    => /\ ctl.touched
       /\ ctl.forceError
       /\ ~host.disabled => ShowErrorValue(State)

\* an invalid event on a focused control shows the error
C18_Witness ==
  /\ obs.step.kind = "invalid"
  /\ ctl.focused
  /\ ~host.disabled
  /\ ShowErrorValue(State)

\* C19: after formResetCallback touched and forceError are false, the
\* resetFormControl hook has been called if the control defines it, and
\* showError is false
C19_ResetClears ==
  obs.step.kind = "formReset"
    => /\ ~ctl.touched
       /\ ~ctl.forceError
       /\ ~ShowErrorValue(State)
       /\ host.resetFormControl = (Count(obs.log, "resetFormControl") = 1)

\* the form was reset, the hook was called, the control is invalid and not
\* focused: no error is shown
C19_Witness ==
  /\ obs.step.kind = "formReset"
  /\ Count(obs.log, "resetFormControl") = 1
  /\ ~Valid(internals.validity)
  /\ ~ctl.focused
  /\ ~host.disabled

\* C20: a focus event sets touched, and nothing but formResetCallback sets
\* it back to false: no setValue, blur, attribute change, invalid event or
\* validator continuation
C20_TouchedUntilReset ==
  [][/\ obs'.step.kind = "focus" => ctl'.touched
     /\ (ctl.touched /\ ~ctl'.touched) => obs'.step.kind = "formReset"
    ]_vars

\* the continuation of an asynchronous validator has run on a touched
\* control
C20_Witness ==
  /\ obs.step.kind = "settle"
  /\ ctl.touched

\* C21: in no state the control has just been blurred with touched false,
\* whatever focus, blur, invalid, setValue and form-reset events came before
C21_BlurImpliesTouched ==
  obs.step.kind = "blur" => ctl.touched

----------------------------------------------------------------------------
(* The validation target *)

InvalidOrder ==
  << "setValidity", "forceError = true", "shouldShowError",
     "shouldShowError", "validationMessageCallback" >>

\* C22: an invalid event on a control whose invalid validity was committed
\* without a validation target (the control awaits one), the target being
\* there by now, first commits the same validity and message again, with
\* the target, and clears the awaiting flag, then sets touched and
\* forceError and reports the message
C22_RecommitThenReport ==
  [][(/\ obs'.step.kind = "invalid"
      /\ ~Valid(internals.validity)
      /\ ~internals.anchor
      /\ host.validationTarget)
       => /\ ctl.awaitingValidationTarget
          /\ obs'.log = InvalidOrder
          /\ internals'.validity = internals.validity
          /\ internals'.validationMessage = internals.validationMessage
          /\ internals'.anchor
          /\ ~ctl'.awaitingValidationTarget
          /\ ctl'.touched
          /\ ctl'.forceError
          /\ obs'.messageShown = internals.validationMessage
    ]_vars

\* the invalid event has supplied the target that was rendered after the
\* invalid validity was committed
C22_Witness ==
  /\ obs.step.kind = "invalid"
  /\ obs.log = InvalidOrder
  /\ ~Valid(internals.validity)
  /\ internals.anchor
  /\ obs.lastCommit.run = 1

\* the validity the validators give the value
Verdicts(value) ==
  [k \in Keys |->
     \E i \in 1..Len(validators) :
       validators[i].key = k /\ value \notin validators[i].accepts]

----------------------------------------------------------------------------
(* The validator registry *)

\* C27: a control of a class with no validators is valid in every state
C27_NoValidatorsAlwaysValid ==
  Len(validators) = 0
    => /\ Valid(internals.validity)
       /\ internals.validationMessage = NoMsg

\* a control with no validators after a value was set and an invalid event
\* was handled
C27_Witness ==
  /\ Len(validators) = 0
  /\ obs.step.kind = "invalid"
  /\ ctl.value = "f"
  /\ ctl.touched

\* C24: in a class with formControlValidationGroup set, a validation run
\* that leaves the control valid leaves every other control of its group
\* with the empty (valid) validity, and a run that leaves the control
\* invalid changes the validity of none of them
C24_GroupCleared ==
  [][(host.formControlValidationGroup /\ Len(runs') > Len(runs))
       => IF Valid(internals'.validity)
            THEN \A n \in DOMAIN host'.formValidationGroup :
                   host'.formValidationGroup[n] = AllOk
            ELSE host'.formValidationGroup = host.formValidationGroup
    ]_vars

\* the validator's own message: the literal, or the function applied to the
\* host and the value
OwnMessage(i, value) ==
  [from |-> "validator", idx |-> i,
   arg |-> IF validators[i].fnMessage THEN value ELSE "literal"]

\* what validityCallback returns for the key of validator i
CallbackText(i) == host.validityCallback.returns[validators[i].key]

\* the validator whose message a commit carries: the first invalid one for
\* the commit that ends the synchronous pass, the resolved one for the
\* commit of a continuation
Reported(c) == IF c.by = 0 THEN FirstInvalid(c.results) ELSE c.by

\* C25: the message committed for a failing validator is the string
\* validityCallback returns for the validator's key if the control defines
\* validityCallback and the string is not empty, and the validator's own
\* message if the callback is not defined or returns nothing or ''
C25_ValidityCallbackWins ==
  LET c == obs.lastCommit IN
  (/\ CommitsInvalid
   /\ \E i \in 1..Len(c.results) : c.results[i] = "bad"
   /\ c.results[Reported(c)] = "bad")
    => c.message =
         IF /\ host.validityCallback.defined
            /\ CallbackText(Reported(c)) \notin {"", Undefined}
           THEN [from |-> "validityCallback", idx |-> 0,
                 arg |-> CallbackText(Reported(c))]
           ELSE OwnMessage(Reported(c), c.value)

\* validityCallback returned '' for the key of the failing validator: the
\* validator's own message, computed from the value, was committed
C25_Witness ==
  /\ CommitsInvalid
  /\ host.validityCallback.defined
  /\ obs.lastCommit.by = 0
  /\ obs.lastCommit.message =
       [from |-> "validator", idx |-> 2, arg |-> "f"]
  /\ internals.validationMessage = obs.lastCommit.message

\* C26: after a validation run of synchronous validators each validity key
\* is violated exactly if a validator that governs it returned false, so the
\* control is invalid whenever a registered validator returned false, also
\* when two validators govern the same key
C26_ViolatedIffValidatorFailed ==
  (StartedRun /\ ~hadAsync /\ Len(validators) > 0)
    => internals.validity = Verdicts(obs.validated)

Range(seq) == {seq[n] : n \in DOMAIN seq}

\* the attribute names the validators of the list declare
Declared(vs) == UNION {Range(vs[i].attribute.names) : i \in 1..Len(vs)}

\* C28: observedAttributes is the union, without duplicates, of the base
\* class's observed attributes and the attribute names the validators
\* declare, and holds nothing else, also for a list with a validator that
\* declares no attribute
C28_ObservedAttributesIsUnion ==
  LET observed == observedAttributes(validators, host.observedAttributes) IN
    /\ Range(observed) =
         Range(host.observedAttributes) \cup Declared(validators)
    /\ Cardinality(Range(observed)) = Len(observed)

\* validator i is tied to the attribute: its attribute is the name, or its
\* attribute list has the name as an element
Tied(vs, i, name) ==
  \E n \in DOMAIN vs[i].attribute.names : vs[i].attribute.names[n] = name

\* C29: getValidators(name) returns the registered validators whose
\* attribute is name or whose attribute list has name as an element (the
\* filter keeps the registration order), and no other validator
C29_GetValidatorsExact ==
  \A name \in AttributeNames :
    getValidators(validators, name) =
      {i \in 1..Len(validators) : Tied(validators, i, name)}

\* C30: the change of an attribute tied to a registered validator starts a
\* validation run on the value last passed to setValue, every validator
\* being called again, and the change of an attribute tied to no validator
\* starts no run
C30_TiedAttributeRevalidates ==
  [][\A name \in AttributeNames :
       AttributeChanged(name)
         => IF \E i \in 1..Len(validators) : Tied(validators, i, name)
              THEN /\ Len(runs') = Len(runs) + 1
                   /\ obs'.validated = ctl.value
                   /\ Count(obs'.log, "isValid") = Len(validators)
              ELSE Len(runs') = Len(runs)
    ]_vars

----------------------------------------------------------------------------
(* The displayed message *)

\* C31: validationMessageCallback is called with '' when the host receives
\* focus and on every value change, and with the current validation message
\* when the element is blurred while its error should be shown
C31_MessagePolicy ==
  /\ obs.step.kind = "focus" => obs.messageShown = NoMsg
  /\ obs.step.kind = "setValue" => obs.messageShown = NoMsg
  /\ (obs.step.kind = "blur" /\ ShowErrorValue(State))
       => obs.messageShown = internals.validationMessage

\* C35: a blur starts a validation run on the value last passed to
\* setValue, or on '' when shouldFormValueUpdate() is false, and sets
\* forceError exactly if the validity committed when the run returns is
\* invalid and the control is touched
C35_BlurRevalidates ==
  [][obs'.step.kind = "blur"
       => /\ Len(runs') = Len(runs) + 1
          /\ obs'.validated =
               IF host.shouldFormValueUpdate THEN ctl.value ELSE ""
          /\ ctl'.forceError =
               (ctl.forceError
                  \/ (~Valid(internals'.validity) /\ ctl.touched))
    ]_vars

\* a blur, the predicate false, has validated '' and forced the error of
\* the touched control
C35_Witness ==
  /\ obs.step.kind = "blur"
  /\ ~host.shouldFormValueUpdate
  /\ ctl.value = "foo"
  /\ obs.validated = ""
  /\ ctl.touched
  /\ ctl.forceError

----------------------------------------------------------------------------
(* The order within a run, and the runs' tokens *)

IsValidCall(c) == c.op = "isValid"

\* C36: a validation run calls the validators in registration order, the
\* verdict of a synchronous validator is written into the run's validity
\* before the next validator is called, and the commit that ends the
\* synchronous pass comes after the call of the last validator
C36_RegistrationOrder ==
  LET calls == obs.step.calls
      called == SelectSeq(calls, IsValidCall)
  IN StartedRun =>
       /\ Len(called) = Len(validators)
       /\ \A i \in 1..Len(called) : called[i].validator = i
       /\ \A n \in DOMAIN calls :
            (calls[n].op = "isValid" /\ ~validators[calls[n].validator].async)
              => /\ n < Len(calls)
                 /\ calls[n + 1] = Call("validity[key] =", calls[n].validator)
       /\ \A n \in DOMAIN calls :
            calls[n].op = "setValidity" => n = Len(calls)

\* the run of a blur: three synchronous validators, then the commit
C36_Witness ==
  /\ StartedRun
  /\ obs.step.kind = "blur"
  /\ Len(validators) = 3
  /\ Len(obs.step.calls) = 7
  /\ obs.step.calls[7] = Call("setValidity", 0)

\* the runs whose AbortController has not been aborted
LiveTokens == {r \in 1..Len(runs) : ~runs[r].aborted}

----------------------------------------------------------------------------
(* What is shown while an error is shown *)

\* C39: whenever showError is true the committed validity is invalid
C39_ShownErrorIsInvalid ==
  ShowErrorValue(State) => ~Valid(internals.validity)

\* C40: whenever showError is true the message last passed to
\* validationMessageCallback is the control's current validationMessage
C40_ShownMessageIsCurrent ==
  ShowErrorValue(State) => obs.messageShown = internals.validationMessage

----------------------------------------------------------------------------
(* The timer of the earlier #validate *)

\* the callback of setInterval gives up when `tick' has reached this number
TickLimit == 100

\* the callback looking for the target before it looks at the validity
intervalCallbackTargetFirst(s, timer) ==
  LET cleared == [timer EXCEPT !.active = FALSE]
      after ==
        IF timer.tick >= TickLimit
          THEN [s |-> s, interval |-> cleared]
          ELSE IF s.host.validationTarget
            THEN [s |-> setValidity(s, s.internals.validity,
                                    s.internals.validationMessage, TRUE),
                  interval |-> [cleared EXCEPT !.commits = @ + 1]]
            ELSE IF Valid(s.internals.validity)
              THEN [s |-> s, interval |-> cleared]
              ELSE [s |-> s, interval |-> timer]
  IN  [after EXCEPT !.interval.tick = @ + 1]

\* the callback the earlier #validate hands to setInterval after an invalid
\* commit without a target: clearInterval at the limit, on a valid control,
\* or after the commit with the target; tick += 1 in every call
intervalCallback(s, timer) ==
  LET cleared == [timer EXCEPT !.active = FALSE]
      after ==
        IF timer.tick >= TickLimit
          THEN [s |-> s, interval |-> cleared]
          ELSE IF Valid(s.internals.validity)
            THEN [s |-> s, interval |-> cleared]
            ELSE IF s.host.validationTarget
              THEN [s |-> setValidity(s, s.internals.validity,
                                      s.internals.validationMessage, TRUE),
                    interval |-> [cleared EXCEPT !.commits = @ + 1]]
              ELSE [s |-> s, interval |-> timer]
  IN  [after EXCEPT !.interval.tick = @ + 1]

\* the timer fires
Tick ==
  /\ interval.active
  /\ LET after == intervalCallback(Begin("interval", 0), interval)
     IN  /\ LoadControl(after.s)
         /\ interval' = after.interval
  /\ UNCHANGED call

\* a control without a rendered target whose first validation was invalid:
\* validity and message are committed without an anchor and the timer is set
InitPoll ==
  /\ \E predicate \in BOOLEAN :
       Control(constructor(<<notNullValidator, isFooValidator>>, FALSE,
                           predicate, FALSE))
  /\ interval = [active |-> TRUE, tick |-> 0, commits |-> 0]
  /\ call = NoCall

NextPoll ==
  \/ Tick
  \/ TargetRendered
  \/ \E value \in Values : SetValue(value)

\* the event loop runs the callback of a timer that is set
SpecPoll == InitPoll /\ [][NextPoll]_vars /\ WF_vars(Tick)

\* what one call of the timer's callback does
TickStep ==
  LET give_up == interval.tick >= TickLimit
      valid == Valid(internals.validity)
      target == host.validationTarget
  IN  /\ interval'.active = ~(give_up \/ valid \/ target)
      /\ IF ~give_up /\ ~valid /\ target
           THEN /\ interval'.commits = interval.commits + 1
                /\ internals' = [internals EXCEPT !.anchor = TRUE]
           ELSE /\ interval'.commits = interval.commits
                /\ internals' = internals

----------------------------------------------------------------------------
(* The form helpers *)

\* the name of a method every object literal inherits
hasOwnPropertyName ==
  <<"h", "a", "s", "O", "w", "n", "P", "r", "o", "p", "e", "r", "t", "y">>

\* name attributes of the fields of a form, as their characters
FieldNames ==
  { <<"a">>, <<"a", ".", "b">>, <<"a", ".", "c">>,
    <<"b", ".", "c", ".", "d">>, hasOwnPropertyName }

\* values of the fields
FieldValues == {"1", "2"}

\* the most fields a form has
MaxFields == 3

\* the entry lists of FormData: the fields of a form in tree order
Forms ==
  UNION {[1..n -> [name : FieldNames, value : FieldValues]] :
           n \in 0..MaxFields}

\* JavaScript values: undefined, a string, an array, an object with its own
\* properties in insertion order, and a TypeError that was thrown
JSValue(type, text, items, props) ==
  [items |-> items, props |-> props, text |-> text, type |-> type]

JSUndefined == JSValue("undefined", "", <<>>, <<>>)

JSString(text) == JSValue("string", text, <<>>, <<>>)

JSArray(items) == JSValue("array", "", items, <<>>)

EmptyObject == JSValue("object", "", <<>>, <<>>)

TypeError == JSValue("TypeError", "", <<>>, <<>>)

\* an own property named key
Own(object, key) ==
  {i \in 1..Len(object.props) : object.props[i].key = key}

\* object[key]
Get(object, key) ==
  IF Own(object, key) = {}
    THEN JSUndefined
    ELSE object.props[CHOOSE i \in Own(object, key) : TRUE].value

\* object[key] = value, on an object or an array
Put(object, key, value) ==
  IF Own(object, key) = {}
    THEN [object EXCEPT !.props = Append(@, [key |-> key, value |-> value])]
    ELSE [object EXCEPT
            !.props[CHOOSE i \in Own(object, key) : TRUE].value = value]

\* a value || {}
Truthy(value) ==
  \/ value.type \in {"array", "object"}
  \/ value.type = "string" /\ value.text # ""

\* the body of the loop of formValues for one entry; values.hasOwnProperty
\* is the inherited method unless a field of that name shadows it
formValuesEntry(values, key, value) ==
  IF values.type = "TypeError"
    THEN values
    ELSE IF Own(values, hasOwnPropertyName) # {}
      THEN TypeError
      ELSE IF Own(values, key) = {}
        THEN Put(values, key, JSString(value))
        ELSE IF Get(values, key).type = "array"
          THEN Put(values, key,
                   JSArray(Append(Get(values, key).items, JSString(value))))
          ELSE Put(values, key,
                   JSArray(<<Get(values, key), JSString(value)>>))

RECURSIVE forEntries(_, _, _)
forEntries(form, i, values) ==
  IF i > Len(form)
    THEN values
    ELSE forEntries(form, i + 1,
                    formValuesEntry(values, form[i].name, form[i].value))

\* formValues(form)
formValues(form) == forEntries(form, 1, EmptyObject)

\* key.includes('.')
includes(key, char) == \E i \in 1..Len(key) : key[i] = char

\* key.split('.')
RECURSIVE split(_, _)
split(key, char) ==
  IF ~includes(key, char)
    THEN <<key>>
    ELSE LET i == CHOOSE j \in 1..Len(key) :
                    /\ key[j] = char
                    /\ \A k \in 1..(j - 1) : key[k] # char
         IN  <<SubSeq(key, 1, i - 1)>>
               \o split(SubSeq(key, i + 1, Len(key)), char)

\* the while loop over the path and the assignment that follows it, from
\* pointer on; the code is a module, so an assignment to a property of a
\* string throws
RECURSIVE assign(_, _, _, _)
assign(pointer, path, destination, value) ==
  IF pointer.type = "string"
    THEN TypeError
    ELSE IF path = <<>>
      THEN Put(pointer, destination, value)
      ELSE LET key == Head(path)
               next == IF Truthy(Get(pointer, key))
                         THEN Get(pointer, key)
                         ELSE EmptyObject
               child == assign(next, Tail(path), destination, value)
           IN  IF child.type = "TypeError"
                 THEN child
                 ELSE Put(pointer, key, child)

\* the callback of Object.entries(data).forEach
parseEntry(output, key, value) ==
  IF output.type = "TypeError"
    THEN output
    ELSE IF includes(key, ".")
      THEN LET path == split(key, ".")
           IN  assign(output, SubSeq(path, 1, Len(path) - 1),
                      path[Len(path)], value)
      ELSE Put(output, key, value)

RECURSIVE forEachEntry(_, _, _)
forEachEntry(data, i, output) ==
  IF i > Len(data.props)
    THEN output
    ELSE forEachEntry(data, i + 1,
                      parseEntry(output, data.props[i].key,
                                 data.props[i].value))

\* parseFormAsObject(form)
parseFormAsObject(form) ==
  LET data == formValues(form)
  IN  IF data.type = "TypeError"
        THEN data
        ELSE forEachEntry(data, 1, EmptyObject)

----------------------------------------------------------------------------
(* The length validators *)

\* the minLength / maxLength property of a control: not set, or a number
NotSet == [n |-> 0, set |-> FALSE]

Lengths == {NotSet} \cup {[n |-> n, set |-> TRUE] : n \in 0..4}

\* the values of the validators' tests, as their characters
Strings ==
  { <<>>, <<"a">>, <<"a", "b">>, <<"a", "b", "c">>,
    <<"a", "b", "c", "d">> }

\* !length
Not(length) == ~length.set \/ length.n = 0

\* minLengthValidator.isValid(instance, value)
minLengthIsValid(minLength, value) ==
  IF Len(value) = 0
    THEN TRUE
    ELSE IF Len(value) # 0 /\ minLength.set /\ minLength.n > Len(value)
      THEN FALSE
      ELSE TRUE

\* maxLengthValidator.isValid(instance, value)
maxLengthIsValid(maxLength, value) ==
  IF Not(maxLength)
    THEN TRUE
    ELSE IF Len(value) # 0 /\ maxLength.n < Len(value)
      THEN FALSE
      ELSE TRUE

----------------------------------------------------------------------------
(* Calls of the pure functions *)

\* one call of a function: it keeps no state between calls
Returned(fn, args, returned) ==
  /\ call = NoCall
  /\ call' = [args |-> args, fn |-> fn, returned |-> returned]
  /\ UNCHANGED <<validators, host, ctl, internals, runs, obs, interval>>

FormValues(form) == Returned("formValues", form, formValues(form))

ParseFormAsObject(form) ==
  Returned("parseFormAsObject", form, parseFormAsObject(form))

MinLength(minLength, value) ==
  Returned("minLengthValidator", [length |-> minLength, value |-> value],
           minLengthIsValid(minLength, value))

MaxLength(maxLength, value) ==
  Returned("maxLengthValidator", [length |-> maxLength, value |-> value],
           maxLengthIsValid(maxLength, value))

InitPure == Start(constructor(<<>>, TRUE, TRUE, FALSE))

NextPure ==
  \/ \E form \in Forms : FormValues(form)
  \/ \E form \in Forms : ParseFormAsObject(form)
  \/ \E minLength \in Lengths, value \in Strings :
       MinLength(minLength, value)
  \/ \E maxLength \in Lengths, value \in Strings :
       MaxLength(maxLength, value)

SpecPure == InitPure /\ [][NextPure]_vars

----------------------------------------------------------------------------
(* What the form helpers return *)

\* the values of the fields named `name', in form order
ValuesOf(form, name) ==
  LET named == SelectSeq(form, LAMBDA field : field.name = name)
  IN  [i \in 1..Len(named) |-> JSString(named[i].value)]

\* the single value of a name that occurs once, the array of its values
\* otherwise
FieldValue(form, name) ==
  IF Len(ValuesOf(form, name)) = 1
    THEN ValuesOf(form, name)[1]
    ELSE JSArray(ValuesOf(form, name))

\* C32: formValues maps each field name to its single value when the name
\* occurs once in the form data, and to the array of all its values in form
\* order when it occurs more than once
C32_FormValues ==
  call.fn = "formValues"
    => /\ call.returned.type = "object"
       /\ \A i \in 1..Len(call.args) :
            Get(call.returned, call.args[i].name)
              = FieldValue(call.args, call.args[i].name)
       /\ \A i \in 1..Len(call.returned.props) :
            \E j \in 1..Len(call.args) :
              call.args[j].name = call.returned.props[i].key

\* what is found by stepping from an object along a path of names
RECURSIVE Leaf(_, _)
Leaf(object, path) ==
  IF path = <<>>
    THEN object
    ELSE Leaf(Get(object, Head(path)), Tail(path))

\* C33: parseFormAsObject takes each '.' of a field name as a step into a
\* nested object and stores the field's value, an array when the full name
\* repeats, at the leaf; a name without '.' stays at the top level
C33_ParseFormAsObject ==
  call.fn = "parseFormAsObject"
    => /\ call.returned.type = "object"
       /\ \A i \in 1..Len(call.args) :
            Leaf(call.returned, split(call.args[i].name, "."))
              = FieldValue(call.args, call.args[i].name)

\* C34: minLengthValidator fails exactly when the value is not empty and
\* shorter than minLength, maxLengthValidator fails exactly when maxLength is
\* set and the value is longer than maxLength: an empty value and a value
\* whose length is the bound are valid
C34_LengthValidators ==
  /\ call.fn = "minLengthValidator"
       => call.returned = ~(/\ Len(call.args.value) > 0
                            /\ call.args.length.set
                            /\ Len(call.args.value) < call.args.length.n)
  /\ call.fn = "maxLengthValidator"
       => call.returned = ~(/\ call.args.length.set
                            /\ Len(call.args.value) > call.args.length.n)

====
